---- MODULE Spec2Model ----
(***************************************************************************)
(* Model of the notebooks of learning-pendulum-swingup:                    *)
(*   - the CartPole pipeline of notebook-theo.ipynb: random-policy         *)
(*     sampling, small-angle filter and least-squares fits, the dlqr cell  *)
(*     and the closed-loop rollout;                                        *)
(*   - EnvRealistic and generate_sample_of_system_dynamics_realistic of    *)
(*     the second notebook (section 7);                                    *)
(*   - pd_control, the 25-step PD cell of notebook-theo.ipynb and          *)
(*     control_to_desired_configuration of the second notebook;            *)
(*   - the two ways the notebooks add the pendulum to the URDF file.       *)
(*                                                                         *)
(* Continuous quantities are fixed-point integers in units of 10^-3        *)
(* (positions, angles, velocities) and 10^-6 (matrix entries, K.s); the    *)
(* joint positions, velocities and torques of the PD loops are in 10^-7.   *)
(* Library collaborators (the gymnasium environment, the physics           *)
(* simulator, OLS, dlqr) are black boxes: the model keeps what the         *)
(* notebooks pass to them and what they hand back.                         *)
(***************************************************************************)
EXTENDS Integers, Sequences, FiniteSets, TLC

VARIABLES
  pc,                  \* notebook cell / statement being executed (CartPole pipeline)
  nb_samples,          \* argument of generate_sample_of_system_dynamics
  i,                   \* iterations of the sampling loop completed
  s,                   \* current observation held by the sampler / the rollout
  a,                   \* last action chosen
  samples,             \* the sampler's local list of rows
  samples_df,          \* the table bound to the global `samples` by the sampling cell
  small_angle_samples, \* rows kept by the small-angle filter
  predictors,          \* the five predictor columns of small_angle_samples
  fits,                \* the OLS models built by the fit cell, in order
  lqrArgs,             \* the matrices passed to dlqr
  K,                   \* the controller gain
  lqrCalls,            \* number of dlqr calls
  envLog,              \* calls made on the gymnasium environment, with their results
  envElapsed,          \* TimeLimit's count of steps since the last reset
  rpc,                 \* statement being executed (arm pipeline)
  rnb,                 \* argument nb_samples of the realistic sampler
  rs,                  \* the realistic sampler's s
  ra,                  \* the realistic sampler's a
  rsamples,            \* the realistic sampler's local list of rows
  rresult,             \* what the realistic sampler returned
  rexc,                \* exception that ended the realistic sampler, if any
  timestep,            \* EnvRealistic.timestep
  armState,            \* what EnvRealistic.get_state reads from the simulator
  armLog,              \* calls made on the EnvRealistic instance, with their results
  lastCall,            \* the latest direct call on an EnvRealistic, with its result
  sinceReset,          \* steps completed since the latest reset call (or construction)
  resetSeen,           \* whether reset has been called on the instance
  ppc,                 \* statement being executed (joint torque control)
  step,                \* iterations of the control loop completed
  q_desired,           \* desired joint positions
  v_desired,           \* desired joint velocities
  Kp,                  \* proportional gains
  Kd,                  \* derivative gains
  q_measured,          \* joint positions read in the latest iteration
  v_measured,          \* joint velocities read in the latest iteration
  tau,                 \* torques computed in the latest iteration
  simCalls,            \* simulator calls of the latest iteration, in order
  simSteps,            \* stepSimulation calls made so far
  urdfIn,              \* lines of the robot description read
  urdfExists,          \* whether the robot description file exists
  urdfOut,             \* lines of the robot description written
  upc                  \* statement being executed (URDF editing)

cartVars == <<pc, nb_samples, i, s, a, samples, samples_df, small_angle_samples,
              predictors, fits, lqrArgs, K, lqrCalls, envLog, envElapsed>>
armVars == <<rpc, rnb, rs, ra, rsamples, rresult, rexc, timestep, armState, armLog>>
callVars == <<lastCall, sinceReset, resetSeen>>
pdVars == <<ppc, step, q_desired, v_desired, Kp, Kd, q_measured, v_measured,
            tau, simCalls, simSteps>>
urdfVars == <<urdfIn, urdfExists, urdfOut, upc>>
restVars == <<callVars, pdVars, urdfVars>>
vars == <<cartVars, armVars, restVars>>

----------------------------------------------------------------------------
(* Bounds of the model *)

MaxSamples == 3        \* largest nb_samples explored
MaxEpisodeSteps == 2   \* stands for the episode length at which TimeLimit truncates
MaxRolloutSamples == 1 \* largest nb_samples explored when the rollout follows

\* No run of the notebooks makes more environment calls than this; the loops
\* that call the environment are guarded by it so that the log stays bounded.
LogCap == 2 * MaxSamples + MaxEpisodeSteps + 2

----------------------------------------------------------------------------
(* Values *)

None == <<>>           \* Python's None

Abs(v) == IF v < 0 THEN -v ELSE v

\* Observations (x, x_dot, theta, theta_dot) the CartPole environment may
\* return, in 10^-3: angles just inside, on and outside the 0.05 band.
States == { <<10, -20, 49, 30>>, <<-15, 25, 50, -35>>, <<40, 5, -51, 60>> }

\* Observations env.reset may return: CartPole starts every episode with all
\* four components within 0.05 of zero.
ResetStates == { st \in States : \A k \in 1 .. 4 : Abs(st[k]) <= 50 }

----------------------------------------------------------------------------
(* The gymnasium environment: gym.make("CartPole-v1") *)

ResetEntry(obs) == [op |-> "reset", obs |-> obs]

StepEntry(act, out) ==
  [op |-> "step", a |-> act, obs |-> out.obs, d |-> out.d, trunc |-> out.trunc]

\* env.step: any observation, any termination flag; the TimeLimit wrapper
\* reports truncation once the episode has lasted the fixed episode length.
EnvStepOutcomes(elapsed) ==
  { [obs |-> o, d |-> t, trunc |-> (elapsed + 1 >= MaxEpisodeSteps)] :
      o \in States, t \in BOOLEAN }

----------------------------------------------------------------------------
(* generate_sample_of_system_dynamics *)

\* np.random.randint(low, high): an integer in [low, high)
randint(low, high) == low .. (high - 1)

\* a = np.random.randint(0, 2)
SampleActions == randint(0, 2)

InRange_inclusive(k, n) == k <= n
\* for _ in range(nb_samples): another iteration is due after k of them
InRange(k, n) == k < n

Row_raw_action(st, act, next_s) ==
  [x |-> st[1], x_dot |-> st[2], theta |-> st[3], theta_dot |-> st[4],
   two_u_minus_1 |-> act,
   evolution_x |-> next_s[1], evolution_x_dot |-> next_s[2],
   evolution_theta_dot |-> next_s[4]]
\* the dict appended to samples; two_u_minus_1 is the column '2u - 1'
Row(st, act, next_s) ==
  [x |-> st[1], x_dot |-> st[2], theta |-> st[3], theta_dot |-> st[4],
   two_u_minus_1 |-> 2 * act - 1,
   evolution_x |-> next_s[1], evolution_x_dot |-> next_s[2],
   evolution_theta_dot |-> next_s[4]]

NeedsReset_never(d, trunc) == FALSE
\* if d: -- only the termination flag is read, the truncation flag is dropped
NeedsReset(d, trunc) == d

\* samples = []; s, _ = env.reset()
SampleStart ==
  /\ pc = "sample_start"
  /\ \E o \in ResetStates :
       /\ s' = o
       /\ envLog' = <<ResetEntry(o)>>
  /\ envElapsed' = 0
  /\ samples' = <<>>
  /\ i' = 0
  /\ pc' = "sample_loop"
  /\ UNCHANGED <<nb_samples, a, samples_df, small_angle_samples, predictors,
                 fits, lqrArgs, K, lqrCalls, armVars, restVars>>

\* one iteration of the for loop
SampleIter ==
  /\ pc = "sample_loop"
  /\ InRange(i, nb_samples)
  /\ Len(envLog) < LogCap
  /\ \E act \in SampleActions, out \in EnvStepOutcomes(envElapsed) :
       /\ a' = act
       /\ samples' = Append(samples, Row(s, act, out.obs))
       /\ IF NeedsReset(out.d, out.trunc)
            THEN \E o \in ResetStates :
                   /\ s' = o
                   /\ envLog' = envLog \o <<StepEntry(act, out), ResetEntry(o)>>
                   /\ envElapsed' = 0
            ELSE /\ s' = out.obs
                 /\ envLog' = Append(envLog, StepEntry(act, out))
                 /\ envElapsed' = envElapsed + 1
  /\ i' = i + 1
  /\ UNCHANGED <<pc, nb_samples, samples_df, small_angle_samples, predictors,
                 fits, lqrArgs, K, lqrCalls, armVars, restVars>>

\* return pd.DataFrame(samples), bound to the global `samples` by the cell
SampleReturn ==
  /\ pc = "sample_loop"
  /\ ~InRange(i, nb_samples)
  /\ samples_df' = samples
  /\ pc' = "fit"
  /\ UNCHANGED <<nb_samples, i, s, a, samples, small_angle_samples, predictors,
                 fits, lqrArgs, K, lqrCalls, envLog, envElapsed, armVars, restVars>>

----------------------------------------------------------------------------
(* The fit cell: small-angle filter and one OLS model per outcome *)

ThetaThreshold == 50   \* 0.05 rad

SmallAngle_inclusive(theta) == Abs(theta) <= ThetaThreshold
\* np.abs(samples["theta"]) < 0.05
SmallAngle(theta) == Abs(theta) < ThetaThreshold

\* samples[mask]: the rows whose mask is true, in order
KeepSmallAngle(df) == SelectSeq(df, LAMBDA r : SmallAngle(r.theta))

PredictorColumns == <<"x", "x_dot", "theta", "theta_dot", "two_u_minus_1">>

\* df[[c1, ..., cn]]: per row, the values of the named columns
Columns(df, cols) ==
  [k \in 1 .. Len(df) |-> [c \in 1 .. Len(cols) |-> df[k][cols[c]]]]

\* df[o]: one column
Column(df, o) == [k \in 1 .. Len(df) |-> df[k][o]]

outcomes == <<"evolution_x_dot", "evolution_theta_dot", "evolution_x">>

\* small_angle_samples[o], the dependent variable handed to OLS
Endog(df, o) == Column(df, o)

\* OLS(endog, exog): the model is determined by the data it is given
OLS(o, endog, exog) == [outcome |-> o, endog |-> endog, exog |-> exog]

\* small_angle_samples = ...; predictors = ...; outcomes = [...]
FitFilter ==
  /\ pc = "fit"
  /\ small_angle_samples' = KeepSmallAngle(samples_df)
  /\ predictors' = Columns(KeepSmallAngle(samples_df), PredictorColumns)
  /\ fits' = <<>>
  /\ pc' = "fit_loop"
  /\ UNCHANGED <<nb_samples, i, s, a, samples, samples_df, lqrArgs, K, lqrCalls,
                 envLog, envElapsed, armVars, restVars>>

\* one iteration of `for o in outcomes`
FitOutcome ==
  /\ pc = "fit_loop"
  /\ Len(fits) < Len(outcomes)
  /\ LET o == outcomes[Len(fits) + 1]
     IN  fits' = Append(fits, OLS(o, Endog(small_angle_samples, o), predictors))
  /\ pc' = IF Len(fits) + 1 = Len(outcomes) THEN "lqr" ELSE "fit_loop"
  /\ UNCHANGED <<nb_samples, i, s, a, samples, samples_df, small_angle_samples,
                 predictors, lqrArgs, K, lqrCalls, envLog, envElapsed, armVars, restVars>>

----------------------------------------------------------------------------
(* The dlqr cell; matrix entries in 10^-6 *)

dT == 20000            \* 0.02

A_from_fit ==
  << <<1000000, dT, 0, 0>>,
     <<0, 1000000, -14107, 0>>,
     <<0, 0, 1000000, dT>>,
     <<31, 19, 315099 + Len(small_angle_samples), 999998>> >>
A ==
  << <<1000000, dT, 0, 0>>,
     <<0, 1000000, -14107, 0>>,
     <<0, 0, 1000000, dT>>,
     <<31, 19, 315099, 999998>> >>

B == << <<0>>, <<195111>>, <<0>>, <<-292548>> >>

\* np.diag(v)
diag(v) == [r \in 1 .. Len(v) |-> [c \in 1 .. Len(v) |-> IF r = c THEN v[r] ELSE 0]]

Q == diag(<<125000000, 50000000, 1200000000, 25000000>>)

R == diag(<<1500000>>)

\* control.dlqr: a function of its arguments. For the notebook's system the
\* gain is the stabilising solution of the discrete Riccati equation,
\* K = (-3.956, -5.332, -28.015, -6.802), kept here in 10^-3; gains of other
\* systems are not tabulated and are told apart by their arguments.
dlqr(mA, mB, mQ, mR) ==
  IF <<mA, mB, mQ, mR>> =
       << << <<1000000, 20000, 0, 0>>, <<0, 1000000, -14107, 0>>,
             <<0, 0, 1000000, 20000>>, <<31, 19, 315099, 999998>> >>,
          << <<0>>, <<195111>>, <<0>>, <<-292548>> >>,
          diag(<<125000000, 50000000, 1200000000, 25000000>>),
          diag(<<1500000>>) >>
    THEN <<-3956, -5332, -28015, -6802>>
    ELSE <<mA[4][1], mA[4][2], mA[4][3], mA[4][4]>>

\* K, S, E = dlqr(A, B, Q, R)
DlqrCell ==
  /\ pc = "lqr"
  /\ lqrArgs' = [A |-> A, B |-> B, Q |-> Q, R |-> R]
  /\ K' = dlqr(A, B, Q, R)
  /\ lqrCalls' = lqrCalls + 1
  /\ pc' = "rollout_start"
  /\ UNCHANGED <<nb_samples, i, s, a, samples, samples_df, small_angle_samples,
                 predictors, fits, envLog, envElapsed, armVars, restVars>>

----------------------------------------------------------------------------
(* The rollout cell: closed loop on a fresh CartPole environment *)

\* np.dot(u, v), in 10^-6
dot(u, v) == u[1] * v[1] + u[2] * v[2] + u[3] * v[3] + u[4] * v[4]

\* -K
neg(u) == [k \in 1 .. Len(u) |-> -u[k]]

Half == 500000         \* 0.5 in 10^-6

\* np.dot(K, s) instead of np.dot(-K, s)
Policy_forgets_sign(gain, st) == IF dot(gain, st) < Half THEN 0 ELSE 1

\* a = 0 if np.dot(-K, s) < 0.5 else 1
Policy(gain, st) == IF dot(neg(gain), st) < Half THEN 0 ELSE 1

RolloutBreak_dead_only(dead, trunc) == dead
\* if dead or trunc: break
RolloutBreak(dead, trunc) == dead \/ trunc

LoopBindings_negates_gain(gain, next_s) == [K |-> neg(gain), s |-> next_s]
\* the names the loop body binds: s takes the new observation; -K is a
\* temporary, K itself is not assigned
LoopBindings(gain, next_s) == [K |-> gain, s |-> next_s]

\* env = gym.make("CartPole-v1", render_mode='human'); s, _ = env.reset()
RolloutStart ==
  /\ pc = "rollout_start"
  /\ \E o \in ResetStates :
       /\ s' = o
       /\ envLog' = <<ResetEntry(o)>>
  /\ envElapsed' = 0
  /\ pc' = "rollout_loop"
  /\ UNCHANGED <<nb_samples, i, a, samples, samples_df, small_angle_samples,
                 predictors, fits, lqrArgs, K, lqrCalls, armVars, restVars>>

\* one iteration of `while True`
RolloutStep ==
  /\ pc = "rollout_loop"
  /\ Len(envLog) < LogCap
  /\ \E out \in EnvStepOutcomes(envElapsed) :
       LET act == Policy(K, s)
           bound == LoopBindings(K, out.obs)
       IN  /\ a' = act
           /\ envLog' = Append(envLog, StepEntry(act, out))
           /\ envElapsed' = envElapsed + 1
           /\ s' = bound.s
           /\ K' = bound.K
           /\ pc' = IF RolloutBreak(out.d, out.trunc)
                      THEN "rollout_done" ELSE "rollout_loop"
  /\ UNCHANGED <<nb_samples, i, samples, samples_df, small_angle_samples,
                 predictors, fits, lqrArgs, lqrCalls, armVars, restVars>>

\* env.close()
RolloutClose ==
  /\ pc = "rollout_done"
  /\ pc' = "closed"
  /\ UNCHANGED <<nb_samples, i, s, a, samples, samples_df, small_angle_samples,
                 predictors, fits, lqrArgs, K, lqrCalls, envLog, envElapsed,
                 armVars, restVars>>

----------------------------------------------------------------------------
(* EnvRealistic: the arm balancing the pendulum *)

\* States (x, x_dot, theta, theta_dot) get_state may read from the simulator,
\* in 10^-3: pendulum angles around pi/16 = 0.19635.
ArmStates == { <<5, -3, 0, 2>>, <<12, 8, 196, -7>>, <<-9, 4, 197, 11>>,
               <<-14, 9, -196, -5>>, <<20, -6, -197, 1>> }

TIME_HORIZON == 1000

PiMicro == 3141592     \* np.pi in 10^-6, rounded down

action_space == <<-1, 1>>

\* reset and step drive the arm through reset_to_initial_state and
\* move_end_effector_along_trajectory. As written, reset_to_initial_state()
\* is called without the body_id its definition requires, and both methods
\* read a global pendulum_joint that no cell of the notebook binds: whether
\* such a call completes depends on what the kernel has bound to these names
\* when it is made. Both outcomes are kept: the call completes, leaving the
\* simulator in some state, or it raises.

\* EnvRealistic.reset: timestep is cleared, the arm is driven to its initial
\* position, and the method ends without a return statement.
ResetOutcomes(sim) ==
  { [raised |-> FALSE, ret |-> None, timestep |-> 0, sim |-> st] :
      st \in ArmStates }
  \cup { [raised |-> TRUE, ret |-> None, timestep |-> 0, sim |-> sim] }

\* if np.abs(theta) > np.pi / 16
Dead(theta) == Abs(theta) * 16 * 1000 > PiMicro

Truncated_from_horizon(ts) == ts >= TIME_HORIZON
\* if self.timestep == self.TIME_HORIZON
Truncated(ts) == ts = TIME_HORIZON

\* EnvRealistic.step: returns ((x, x_dot, theta, theta_dot), dead, truncated)
StepOutcomes(ts, sim) ==
  { [raised |-> FALSE, state |-> st, dead |-> Dead(st[3]),
     truncated |-> Truncated(ts + 1), timestep |-> ts + 1, sim |-> st] :
      st \in ArmStates }
  \cup { [raised |-> TRUE, state |-> None, dead |-> FALSE, truncated |-> FALSE,
          timestep |-> ts, sim |-> sim] }

ArmResetEntry(out) ==
  [op |-> "reset", raised |-> out.raised, ret |-> out.ret,
   timestep |-> out.timestep]

ArmStepEntry(act, out) ==
  [op |-> "step", a |-> act, raised |-> out.raised, state |-> out.state,
   dead |-> out.dead, truncated |-> out.truncated, timestep |-> out.timestep]

----------------------------------------------------------------------------
(* Any caller of an EnvRealistic instance: reset and step in any order *)

\* Direct calls stop once timestep has passed the horizon by this much.
StepCap == TIME_HORIZON + 2

\* env.reset()
EnvReset ==
  /\ rpc = "calls"
  /\ \E out \in ResetOutcomes(armState) :
       /\ timestep' = out.timestep
       /\ armState' = out.sim
       /\ lastCall' = ArmResetEntry(out)
  /\ sinceReset' = 0
  /\ resetSeen' = TRUE
  /\ UNCHANGED <<rpc, rnb, rs, ra, rsamples, rresult, rexc, armLog, cartVars,
                 pdVars, urdfVars>>

\* env.step(action)
EnvStep ==
  /\ rpc = "calls"
  /\ timestep < StepCap
  /\ \E k \in 1 .. Len(action_space), out \in StepOutcomes(timestep, armState) :
       /\ timestep' = out.timestep
       /\ armState' = out.sim
       /\ lastCall' = ArmStepEntry(action_space[k], out)
       /\ sinceReset' = IF out.raised THEN sinceReset ELSE sinceReset + 1
  /\ UNCHANGED <<rpc, rnb, rs, ra, rsamples, rresult, rexc, armLog, resetSeen,
                 cartVars, pdVars, urdfVars>>

----------------------------------------------------------------------------
(* generate_sample_of_system_dynamics_realistic *)

\* what a call of the sampler hands back
NoneResult == [kind |-> "None"]

\* pd.DataFrame(samples)
DataFrame(rows) == [kind |-> "DataFrame", rows |-> rows]

\* s[0] and its like need a tuple; None is not subscriptable
Subscriptable(v) == v # None

\* the dict appended to samples
RealisticRow(st, act, next_s) ==
  [x |-> st[1], x_dot |-> st[2], theta |-> st[3], theta_dot |-> st[4],
   u |-> act,
   evolution_x |-> next_s[1], evolution_x_dot |-> next_s[2],
   evolution_theta_dot |-> next_s[4]]

\* samples = []; s = env.reset()
RealisticStart ==
  /\ rpc = "start"
  /\ \E out \in ResetOutcomes(armState) :
       /\ timestep' = out.timestep
       /\ armState' = out.sim
       /\ armLog' = Append(armLog, ArmResetEntry(out))
       /\ IF out.raised
            THEN /\ rpc' = "raised"
                 /\ rexc' = "helper"
                 /\ rs' = rs
            ELSE /\ rpc' = "loop"
                 /\ rexc' = rexc
                 /\ rs' = out.ret
  /\ rsamples' = <<>>
  /\ UNCHANGED <<rnb, ra, rresult, cartVars, restVars>>

\* the body of the for loop, down to the return statement that closes it
RealisticIter ==
  /\ rpc = "loop"
  /\ InRange(0, rnb)
  /\ \E k \in randint(0, 2), out \in StepOutcomes(timestep, armState) :
       LET act == action_space[k + 1]
       IN  /\ ra' = act
           /\ IF out.raised
                THEN \* env.step raised
                     /\ rpc' = "raised"
                     /\ rexc' = "helper"
                     /\ armLog' = Append(armLog, ArmStepEntry(act, out))
                     /\ timestep' = out.timestep
                     /\ armState' = out.sim
                     /\ UNCHANGED <<rs, rsamples, rresult>>
                ELSE IF ~Subscriptable(rs)
                THEN \* 'x': s[0] raises TypeError
                     /\ rpc' = "raised"
                     /\ rexc' = "TypeError"
                     /\ armLog' = Append(armLog, ArmStepEntry(act, out))
                     /\ timestep' = out.timestep
                     /\ armState' = out.sim
                     /\ UNCHANGED <<rs, rsamples, rresult>>
                ELSE \* the row is appended, s is updated, and the function
                     \* returns from inside the loop
                     /\ rsamples' = Append(rsamples, RealisticRow(rs, act, out.state))
                     /\ IF out.dead \/ out.truncated
                          THEN \E r \in ResetOutcomes(out.sim) :
                                 /\ timestep' = r.timestep
                                 /\ armState' = r.sim
                                 /\ armLog' = armLog \o
                                      <<ArmStepEntry(act, out), ArmResetEntry(r)>>
                                 /\ IF r.raised
                                      THEN /\ rpc' = "raised"
                                           /\ rexc' = "helper"
                                           /\ UNCHANGED <<rs, rresult>>
                                      ELSE /\ rs' = r.ret
                                           /\ rresult' = DataFrame(rsamples')
                                           /\ rpc' = "returned"
                                           /\ rexc' = rexc
                          ELSE /\ timestep' = out.timestep
                               /\ armState' = out.sim
                               /\ armLog' = Append(armLog, ArmStepEntry(act, out))
                               /\ rs' = out.state
                               /\ rresult' = DataFrame(rsamples')
                               /\ rpc' = "returned"
                               /\ rexc' = rexc
  /\ UNCHANGED <<rnb, cartVars, restVars>>

\* range(nb_samples) is empty: the loop body never runs and the function
\* ends without a return statement
RealisticFallOff ==
  /\ rpc = "loop"
  /\ ~InRange(0, rnb)
  /\ rresult' = NoneResult
  /\ rpc' = "returned"
  /\ UNCHANGED <<rnb, rs, ra, rsamples, rexc, timestep, armState, armLog,
                 cartVars, restVars>>

----------------------------------------------------------------------------
(* Specifications of the CartPole notebook *)

CallsIdle ==
  /\ lastCall = [op |-> "none"]
  /\ sinceReset = 0
  /\ resetSeen = FALSE

PdIdle ==
  /\ ppc = "idle"
  /\ step = 0
  /\ q_desired = <<>>
  /\ v_desired = <<>>
  /\ Kp = <<>>
  /\ Kd = <<>>
  /\ q_measured = <<>>
  /\ v_measured = <<>>
  /\ tau = <<>>
  /\ simCalls = <<>>
  /\ simSteps = 0

UrdfIdle ==
  /\ upc = "idle"
  /\ urdfIn = <<>>
  /\ urdfExists = FALSE
  /\ urdfOut = None

RestIdle ==
  /\ CallsIdle
  /\ PdIdle
  /\ UrdfIdle

ArmFresh ==
  /\ rpc = "idle"
  /\ rnb = 0
  /\ rs = None
  /\ ra = 0
  /\ rsamples = <<>>
  /\ rresult = NoneResult
  /\ rexc = "none"
  /\ timestep = 0
  /\ armState = None
  /\ armLog = <<>>

ArmIdle ==
  /\ ArmFresh
  /\ RestIdle

CartFresh ==
  /\ i = 0
  /\ s = None
  /\ a = 0
  /\ samples = <<>>
  /\ samples_df = <<>>
  /\ small_angle_samples = <<>>
  /\ predictors = <<>>
  /\ fits = <<>>
  /\ lqrArgs = None
  /\ K = None
  /\ lqrCalls = 0
  /\ envLog = <<>>
  /\ envElapsed = 0

\* The CartPole cells are not being run.
CartIdle ==
  /\ pc = "idle"
  /\ nb_samples = 0
  /\ CartFresh

\* The sampling cell is about to call the sampler.
Init ==
  /\ pc = "sample_start"
  /\ nb_samples \in 0 .. MaxSamples
  /\ CartFresh
  /\ ArmIdle

\* sampling cell, fit cell, dlqr cell
Next ==
  \/ SampleStart
  \/ SampleIter
  \/ SampleReturn
  \/ FitFilter
  \/ FitOutcome
  \/ DlqrCell

Spec == Init /\ [][Next]_vars

\* The whole notebook, run cell after cell on a short sampling run.
InitRollout ==
  /\ pc = "sample_start"
  /\ nb_samples \in 0 .. MaxRolloutSamples
  /\ CartFresh
  /\ ArmIdle

\* sampling cell, fit cell, dlqr cell, rollout cell, env.close()
NextRollout ==
  \/ SampleStart
  \/ SampleIter
  \/ SampleReturn
  \/ FitFilter
  \/ FitOutcome
  \/ DlqrCell
  \/ RolloutStart
  \/ RolloutStep
  \/ RolloutClose

SpecRollout == InitRollout /\ [][NextRollout]_vars

\* Cells run to completion: a step that can be taken is taken.
FairSpecRollout == SpecRollout /\ WF_vars(NextRollout)

----------------------------------------------------------------------------
(* Reading the environment log *)

IsStep(p) == envLog[p].op = "step"

StepCount == Cardinality({p \in 1 .. Len(envLog) : IsStep(p)})

\* position in envLog of the k-th env.step call
StepPos(k) ==
  CHOOSE p \in 1 .. Len(envLog) :
    IsStep(p) /\ Cardinality({q \in 1 .. p : IsStep(q)}) = k

PreState(row) == <<row.x, row.x_dot, row.theta, row.theta_dot>>

Sampling == pc \in {"sample_start", "sample_loop"}

----------------------------------------------------------------------------
(* Properties of generate_sample_of_system_dynamics *)

\* C1: the sampler performs exactly nb_samples environment steps and returns
\* a table of exactly nb_samples rows, whatever the terminations (while the
\* loop runs, rows, steps and completed iterations agree).
C1_ExactlyNbSamples ==
  /\ pc = "sample_loop" => Len(samples) = i /\ StepCount = i /\ i <= nb_samples
  /\ ~Sampling => Len(samples_df) = nb_samples /\ StepCount = nb_samples

\* C1 witness: a full-size table was returned after a run with a termination
\* (and so a reset) in it.
C1_Witness ==
  /\ pc = "fit"
  /\ nb_samples = MaxSamples
  /\ Len(samples_df) = MaxSamples
  /\ \E p \in 1 .. Len(envLog) : IsStep(p) /\ envLog[p].d

\* C3 (as claimed): env.step is never called on an episode whose previous
\* step was reported as ended, by termination or by truncation, without an
\* env.reset in between.
C3_NoStepOnEndedEpisode ==
  \A p \in 2 .. Len(envLog) :
    (IsStep(p) /\ IsStep(p - 1)) => ~(envLog[p - 1].d \/ envLog[p - 1].trunc)

\* C4: row 1 starts from the observation of the initial reset; row k+1 starts
\* from the observation returned by step k when step k did not report
\* termination (so x, x_dot, theta_dot continue row k's evolution columns),
\* and from the observation of the reset that followed step k when it did.
C4_ConsecutiveRows ==
  /\ Len(samples) >= 1 =>
       /\ envLog[1].op = "reset"
       /\ PreState(samples[1]) = envLog[1].obs
  /\ \A k \in 1 .. Len(samples) - 1 :
       LET p == StepPos(k)
       IN  IF ~envLog[p].d
             THEN /\ PreState(samples[k + 1]) = envLog[p].obs
                  /\ samples[k + 1].x = samples[k].evolution_x
                  /\ samples[k + 1].x_dot = samples[k].evolution_x_dot
                  /\ samples[k + 1].theta_dot = samples[k].evolution_theta_dot
             ELSE /\ p + 1 <= Len(envLog)
                  /\ envLog[p + 1].op = "reset"
                  /\ PreState(samples[k + 1]) = envLog[p + 1].obs

\* C4 witness: three rows, the first step terminated (row 2 starts from a
\* reset), the second did not (row 3 continues row 2).
C4_Witness ==
  /\ Len(samples) = 3
  /\ envLog[StepPos(1)].d
  /\ ~envLog[StepPos(2)].d
  /\ envLog[StepPos(1) + 1].obs # envLog[StepPos(1)].obs

\* C5: row k holds the observation the environment returned last before the
\* k-th step, that step's action and that step's returned x, x_dot and
\* theta_dot; the action is 0 or 1 and column '2u - 1' is 2a - 1, so -1 or 1.
C5_RowPairsStep ==
  \A k \in 1 .. Len(samples) :
    /\ k <= StepCount
    /\ LET p == StepPos(k)
           e == envLog[p]
           row == samples[k]
       IN  /\ e.a \in {0, 1}
           /\ row.two_u_minus_1 = 2 * e.a - 1
           /\ row.two_u_minus_1 \in {-1, 1}
           /\ p > 1
           /\ PreState(row) = envLog[p - 1].obs
           /\ row.evolution_x = e.obs[1]
           /\ row.evolution_x_dot = e.obs[2]
           /\ row.evolution_theta_dot = e.obs[4]

\* C5 witness: rows recorded for both actions.
C5_Witness ==
  /\ Len(samples) >= 2
  /\ \E j, k \in 1 .. Len(samples) :
       samples[j].two_u_minus_1 = -1 /\ samples[k].two_u_minus_1 = 1

----------------------------------------------------------------------------
(* Properties of the fit cell and of the dlqr cell *)

Fitted == pc \in {"lqr", "rollout_start"}

\* C9: the rows given to the regressions are exactly the sampled rows with
\* |theta| < 0.05 (strictly); one regression is fitted per outcome
\* evolution_x_dot, evolution_theta_dot, evolution_x; each is given the same
\* filtered rows, the five predictors x, x_dot, theta, theta_dot, 2u - 1, and
\* as dependent variable its own outcome column and nothing of the others.
C9_FitUsesSmallAngleRows ==
  (pc = "fit_loop" \/ Fitted) =>
    /\ \A k \in 1 .. Len(small_angle_samples) :
         Abs(small_angle_samples[k].theta) < ThetaThreshold
    /\ Len(small_angle_samples) =
         Cardinality({k \in 1 .. Len(samples_df) :
                        Abs(samples_df[k].theta) < ThetaThreshold})
    /\ \A k \in 1 .. Len(samples_df) :
         Abs(samples_df[k].theta) < ThetaThreshold =>
           \E j \in 1 .. Len(small_angle_samples) :
             small_angle_samples[j] = samples_df[k]
    /\ \A j \in 1 .. Len(fits) :
         /\ DOMAIN fits[j].exog = 1 .. Len(small_angle_samples)
         /\ DOMAIN fits[j].endog = 1 .. Len(small_angle_samples)
         /\ \A k \in 1 .. Len(small_angle_samples) :
              LET r == small_angle_samples[k]
              IN  /\ fits[j].exog[k] =
                       <<r.x, r.x_dot, r.theta, r.theta_dot, r.two_u_minus_1>>
                  /\ fits[j].endog[k] = r[fits[j].outcome]
    /\ Fitted =>
         /\ Len(fits) = 3
         /\ {fits[j].outcome : j \in 1 .. Len(fits)} =
              {"evolution_x_dot", "evolution_theta_dot", "evolution_x"}

\* C9 witness: the fits are done on a table that holds a row inside the band,
\* a row on its edge (theta = 0.05) and a row outside it.
C9_Witness ==
  /\ Fitted
  /\ Len(small_angle_samples) >= 1
  /\ \E k \in 1 .. Len(samples_df) : samples_df[k].theta = ThetaThreshold
  /\ \E k \in 1 .. Len(samples_df) : samples_df[k].theta < -ThetaThreshold

\* C8: whatever was sampled and fitted, dlqr is given the same hand-written
\* A, B, Q, R, and K is the same gain.
C8_LqrInputsAreConstants ==
  lqrCalls > 0 =>
    /\ lqrArgs.A = << <<1000000, 20000, 0, 0>>, <<0, 1000000, -14107, 0>>,
                      <<0, 0, 1000000, 20000>>, <<31, 19, 315099, 999998>> >>
    /\ lqrArgs.B = << <<0>>, <<195111>>, <<0>>, <<-292548>> >>
    /\ lqrArgs.Q = << <<125000000, 0, 0, 0>>, <<0, 50000000, 0, 0>>,
                      <<0, 0, 1200000000, 0>>, <<0, 0, 0, 25000000>> >>
    /\ lqrArgs.R = << <<1500000>> >>
    /\ K = <<-3956, -5332, -28015, -6802>>

\* C8 witness: dlqr has run after a sampling run whose table and fits are not
\* empty.
C8_Witness ==
  /\ lqrCalls > 0
  /\ Len(samples_df) = MaxSamples
  /\ Len(small_angle_samples) >= 1
  /\ Len(fits) = 3

----------------------------------------------------------------------------
(* Properties of the rollout *)

InRollout == pc \in {"rollout_loop", "rollout_done", "closed"}

RolloutOver == pc \in {"rollout_done", "closed"}

Ended(p) == envLog[p].d \/ envLog[p].trunc

\* the loop stops at the first step reported dead or truncated
StopsAtFirstEnd ==
  InRollout =>
    /\ \A p \in 1 .. Len(envLog) - 1 : IsStep(p) => ~Ended(p)
    /\ pc = "rollout_loop" =>
         \A p \in 1 .. Len(envLog) : IsStep(p) => ~Ended(p)
    /\ RolloutOver => IsStep(Len(envLog)) /\ Ended(Len(envLog))
    /\ StepCount <= MaxEpisodeSteps

\* C6: the rollout ends at the first step for which the environment reports
\* dead or truncated, applies no step after it, and, the episode being
\* truncated at the fixed length, always comes to an end.
C6_RolloutEnds == [] StopsAtFirstEnd /\ <> RolloutOver

\* C6 witness: a rollout that was never dead and was stopped by truncation.
C6_Witness ==
  /\ RolloutOver
  /\ StepCount = MaxEpisodeSteps
  /\ envLog[Len(envLog)].trunc
  /\ \A p \in 1 .. Len(envLog) : IsStep(p) => ~envLog[p].d

\* C7: K is computed once, before the rollout starts, and no step of the
\* rollout changes it.
C7_GainFixed ==
  /\ [] (InRollout => lqrCalls = 1 /\ K # None)
  /\ [][(pc \in {"rollout_start", "rollout_loop"}) => K' = K]_vars

\* C7 witness: a rollout of more than one step has ended.
C7_Witness ==
  /\ RolloutOver
  /\ StepCount >= 2
  /\ lqrCalls = 1

----------------------------------------------------------------------------
(* Specification of the arm notebook's sampling cell *)

\* A freshly constructed EnvRealistic is handed to the sampler.
InitRealistic ==
  /\ pc = "idle"
  /\ nb_samples = 0
  /\ CartFresh
  /\ rpc = "start"
  /\ rnb \in 0 .. MaxSamples
  /\ rs = None
  /\ ra = 0
  /\ rsamples = <<>>
  /\ rresult = NoneResult
  /\ rexc = "none"
  /\ timestep = 0
  /\ armState \in ArmStates
  /\ armLog = <<>>
  /\ RestIdle

NextRealistic ==
  \/ RealisticStart
  \/ RealisticIter
  \/ RealisticFallOff

SpecRealistic == InitRealistic /\ [][NextRealistic]_vars

----------------------------------------------------------------------------
(* Properties of the arm environment and of its sampler *)

RealisticEnded == rpc \in {"returned", "raised"}

\* C2 (as claimed): when no arm-motion call fails, the sampler ends by
\* returning a table of nb_samples rows, one per step taken.
C2_ReturnsNbSamplesRows ==
  (RealisticEnded /\ rexc # "helper") =>
    /\ rpc = "returned"
    /\ rresult.kind = "DataFrame"
    /\ Len(rresult.rows) = rnb
    /\ Cardinality({p \in 1 .. Len(armLog) : armLog[p].op = "step"}) = rnb

\* C10 (as claimed): a reset that completes returns the state 4-tuple and
\* leaves timestep at 0.
C10_ResetReturnsState ==
  \A p \in 1 .. Len(armLog) :
    (armLog[p].op = "reset" /\ ~armLog[p].raised) =>
      /\ armLog[p].ret \in ArmStates
      /\ armLog[p].timestep = 0

----------------------------------------------------------------------------
(* Specification of an EnvRealistic instance under arbitrary calls *)

\* A freshly constructed EnvRealistic.
InitEnv ==
  /\ pc = "idle"
  /\ nb_samples = 0
  /\ CartFresh
  /\ rpc = "calls"
  /\ rnb = 0
  /\ rs = None
  /\ ra = 0
  /\ rsamples = <<>>
  /\ rresult = NoneResult
  /\ rexc = "none"
  /\ timestep = 0
  /\ armState \in ArmStates
  /\ armLog = <<>>
  /\ RestIdle

NextEnv ==
  \/ EnvReset
  \/ EnvStep

SpecEnv == InitEnv /\ [][NextEnv]_vars

StepReturned == lastCall.op = "step" /\ ~lastCall.raised

\* C11: a step that returns hands back (state, dead, truncated); timestep is
\* the number of steps completed since the latest reset (or construction),
\* so each step adds exactly 1; dead holds exactly when |theta| > pi/16
\* (0.19635, so from 0.197 on in 10^-3); truncated holds exactly on the
\* TIME_HORIZON-th step since the latest reset.
C11_StepCountsAndFlags ==
  /\ timestep = sinceReset
  /\ StepReturned =>
       /\ lastCall.state \in ArmStates
       /\ lastCall.state = armState
       /\ lastCall.timestep = sinceReset
       /\ lastCall.dead = (Abs(lastCall.state[3]) >= 197)
       /\ lastCall.truncated = (sinceReset = 1000)

\* C11 witness: after a reset, the 1000th step has just returned truncated
\* with the pendulum still inside the angle limit.
C11_Witness ==
  /\ StepReturned
  /\ resetSeen
  /\ lastCall.truncated
  /\ ~lastCall.dead
  /\ sinceReset = TIME_HORIZON

-----------------------------------------------------------------------------
(* pd_control and the loops that call it; joint positions, velocities and  *)
(* torques in units of 10^-7, gains as plain integers                      *)

NumJoints == 2

EdoJoints == 6

ones(n) == [j \in 1 .. n |-> 1]

zeros_like(vec) == [j \in DOMAIN vec |-> 0]

times(c, vec) == [j \in DOMAIN vec |-> c * vec[j]]

\* Kd * position_error instead of Kd * velocity_error.
pd_control_derivative_on_position(qd, vd, qm, vm, kp, kd) ==
  LET position_error == [j \in DOMAIN qd |-> qd[j] - qm[j]]
  IN  [j \in DOMAIN qd |-> kp[j] * position_error[j] + kd[j] * position_error[j]]

pd_control(qd, vd, qm, vm, kp, kd) ==
  LET position_error == [j \in DOMAIN qd |-> qd[j] - qm[j]]
      velocity_error == [j \in DOMAIN vd |-> vd[j] - vm[j]]
  IN  [j \in DOMAIN qd |-> kp[j] * position_error[j] + kd[j] * velocity_error[j]]

\* What getJointState / getJointStates can report for one joint:
\* <<position, velocity>>.
JointReadings ==
  { <<9, -9>>, <<-30000000, 5>> }

JointStates(n) == [1 .. n -> JointReadings]

Positions(joint_states) == [j \in DOMAIN joint_states |-> joint_states[j][1]]

Velocities(joint_states) == [j \in DOMAIN joint_states |-> joint_states[j][2]]

SetTorque(jointIndex, force) ==
  [call |-> "setJointMotorControl2", jointIndex |-> jointIndex, force |-> force]

StepSimulation == [call |-> "stepSimulation"]

-----------------------------------------------------------------------------
(* pd_control on its own: any desired and measured values, any gains *)

PdPositions == {0, 10}

PdVelocities == {0, 5}

PdKp == {20, 100}

PdKd == {0, 1}

PdCall ==
  /\ ppc = "pd_call"
  /\ tau' = pd_control(q_desired, v_desired, q_measured, v_measured, Kp, Kd)
  /\ ppc' = "pd_returned"
  /\ UNCHANGED <<step, q_desired, v_desired, Kp, Kd, q_measured, v_measured,
                 simCalls, simSteps, cartVars, armVars, callVars, urdfVars>>

InitPd ==
  /\ CartIdle
  /\ ArmFresh
  /\ CallsIdle
  /\ UrdfIdle
  /\ ppc = "pd_call"
  /\ step = 0
  /\ q_desired \in [1 .. NumJoints -> PdPositions]
  /\ v_desired \in [1 .. NumJoints -> PdVelocities]
  /\ q_measured \in [1 .. NumJoints -> PdPositions]
  /\ v_measured \in [1 .. NumJoints -> PdVelocities]
  /\ Kp \in [1 .. NumJoints -> PdKp]
  /\ Kd \in [1 .. NumJoints -> PdKd]
  /\ tau = <<>>
  /\ simCalls = <<>>
  /\ simSteps = 0

NextPd == PdCall

SpecPd == InitPd /\ [][NextPd]_vars

PdReturned == ppc = "pd_returned"

\* C13: pd_control returns, for every joint, Kp times the position error
\* plus Kd times the velocity error of that joint alone: a joint whose
\* measured position and velocity equal the desired ones gets torque 0,
\* whatever the errors of the other joints.
C13_PdControlElementwise ==
  PdReturned =>
    /\ DOMAIN tau = 1 .. NumJoints
    /\ \A j \in 1 .. NumJoints :
         /\ tau[j] = Kp[j] * q_desired[j] - Kp[j] * q_measured[j]
                     + Kd[j] * v_desired[j] - Kd[j] * v_measured[j]
         /\ (q_measured[j] = q_desired[j] /\ v_measured[j] = v_desired[j])
               => tau[j] = 0

\* One joint is on target and gets no torque while another joint, with
\* position and velocity errors and both gains non-zero, gets some.
C13_Witness ==
  /\ PdReturned
  /\ \E j, k \in 1 .. NumJoints :
       /\ q_measured[j] = q_desired[j] /\ v_measured[j] = v_desired[j]
       /\ tau[j] = 0
       /\ q_measured[k] # q_desired[k] /\ v_measured[k] # v_desired[k]
       /\ Kd[k] # 0
       /\ tau[k] # 0

-----------------------------------------------------------------------------
(* control_to_desired_configuration *)

ControlSteps == 1000

eps == 10

TorqueLimit == 500000000

\* np.clip left out.
clip_nothing(vec, lo, hi) == vec

clip(vec, lo, hi) ==
  [j \in DOMAIN vec |->
     IF vec[j] < lo THEN lo ELSE IF vec[j] > hi THEN hi ELSE vec[j]]

max(vec) == CHOOSE m \in {vec[j] : j \in DOMAIN vec} : \A j \in DOMAIN vec : vec[j] <= m

abs_difference(v1, v2) == [j \in DOMAIN v1 |-> Abs(v1[j] - v2[j])]

\* "or" instead of "and" in the test.
AtTarget_either(qm, vm, qd, vd, e) ==
  \/ max(abs_difference(qm, qd)) < e
  \/ max(abs_difference(vm, vd)) < e

AtTarget(qm, vm, qd, vd, e) ==
  /\ max(abs_difference(qm, qd)) < e
  /\ max(abs_difference(vm, vd)) < e

\* The setJointMotorControl2 calls of one iteration, joint 0 first.
TorqueCommands(nq, torques) == [k \in 1 .. nq |-> SetTorque(k - 1, torques[k])]

\* Targets the function is called with.
ControlTargets ==
  { [j \in 1 .. NumJoints |-> 10], [j \in 1 .. NumJoints |-> -30000010] }

\* One iteration of "for step in range(1000)".
ControlIter ==
  /\ ppc = "control_loop"
  /\ step < ControlSteps
  /\ \E joint_states \in JointStates(NumJoints) :
       LET qm == Positions(joint_states)
           vm == Velocities(joint_states)
           torques == clip(pd_control(q_desired, v_desired, qm, vm, Kp, Kd),
                           -TorqueLimit, TorqueLimit)
       IN  /\ q_measured' = qm
           /\ v_measured' = vm
           /\ IF AtTarget(qm, vm, q_desired, v_desired, eps)
                THEN /\ ppc' = "returned"
                     /\ tau' = <<>>
                     /\ simCalls' = <<>>
                     /\ UNCHANGED <<step, simSteps>>
                ELSE /\ tau' = torques
                     /\ simCalls' = TorqueCommands(NumJoints, torques) \o <<StepSimulation>>
                     /\ simSteps' = simSteps + 1
                     /\ step' = step + 1
                     /\ UNCHANGED ppc
  /\ UNCHANGED <<q_desired, v_desired, Kp, Kd, cartVars, armVars, callVars, urdfVars>>

\* range(1000) is exhausted: the function falls off its end.
ControlLoopEnd ==
  /\ ppc = "control_loop"
  /\ step = ControlSteps
  /\ ppc' = "returned"
  /\ UNCHANGED <<step, q_desired, v_desired, Kp, Kd, q_measured, v_measured,
                 tau, simCalls, simSteps, cartVars, armVars, callVars, urdfVars>>

\* The function has been called and has set its gains.
InitControl ==
  /\ CartIdle
  /\ ArmFresh
  /\ CallsIdle
  /\ UrdfIdle
  /\ ppc = "control_loop"
  /\ step = 0
  /\ q_desired \in ControlTargets
  /\ v_desired = zeros_like(q_desired)
  /\ Kp = times(20, ones(NumJoints))
  /\ Kd = [j \in DOMAIN Kp |-> (5 * Kp[j]) \div 100]
  /\ q_measured = <<>>
  /\ v_measured = <<>>
  /\ tau = <<>>
  /\ simCalls = <<>>
  /\ simSteps = 0

NextControl ==
  \/ ControlIter
  \/ ControlLoopEnd

SpecControl == InitControl /\ [][NextControl]_vars

\* The function keeps running once called.
FairSpecControl == SpecControl /\ WF_vars(NextControl)

ControlReturned == ppc = "returned"

\* The latest iteration commanded torques and stepped the simulation.
IterationActed == simCalls # <<>>

\* Every joint is within 10^-6 of its target in position and in velocity,
\* on the latest measurement.
AllBelowEps ==
  \A j \in 1 .. NumJoints :
    /\ Abs(q_measured[j] - q_desired[j]) < 10
    /\ Abs(v_measured[j] - v_desired[j]) < 10

ReturnsAtFirstConvergence ==
  /\ simSteps <= 1000
  /\ simSteps = step
  /\ IterationActed => ~AllBelowEps
  /\ (ControlReturned /\ step < 1000) => (AllBelowEps /\ ~IterationActed)
  /\ (ControlReturned /\ step = 1000) => IterationActed

\* C16: control_to_desired_configuration returns, after at most 1000
\* simulation steps; it returns in the first iteration whose measurement
\* has both the largest position error and the largest velocity error
\* below eps, and that iteration neither commands a torque nor steps the
\* simulation.
C16_ControlTerminates == [] ReturnsAtFirstConvergence /\ <> ControlReturned

\* The function returned early, after some iterations that did act.
C16_Witness ==
  /\ ControlReturned
  /\ 0 < step /\ step < ControlSteps
  /\ simSteps = step
  /\ AllBelowEps

PdTorque(j) ==
  20 * (q_desired[j] - q_measured[j]) + (v_desired[j] - v_measured[j])

Clipped(x) == IF x < -500000000 THEN -500000000 ELSE IF x > 500000000 THEN 500000000 ELSE x

\* C17: every torque handed to the simulator is the pd_control output of
\* its joint clipped to [-50, 50]; an iteration that acts commands joints
\* 0 .. nq-1 once each from one measurement and then steps the simulation
\* once.
C17_ClippedTorquesThenStep ==
  IterationActed =>
    /\ Len(simCalls) = NumJoints + 1
    /\ \A k \in 1 .. NumJoints :
         /\ simCalls[k].call = "setJointMotorControl2"
         /\ simCalls[k].jointIndex = k - 1
         /\ simCalls[k].force = Clipped(PdTorque(k))
         /\ simCalls[k].force >= -500000000
         /\ simCalls[k].force <= 500000000
    /\ simCalls[NumJoints + 1].call = "stepSimulation"

\* One joint's torque is cut down to the limit while another joint's is
\* passed on as computed.
C17_Witness ==
  /\ IterationActed
  /\ \E j, k \in 1 .. NumJoints :
       /\ PdTorque(j) > 500000000
       /\ simCalls[j].force = 500000000
       /\ PdTorque(k) # 0
       /\ simCalls[k].force = PdTorque(k)

-----------------------------------------------------------------------------
(* The PD control cell of notebook-theo.ipynb (section 4) *)

PDLoopSteps == 25

\* The setJointMotorControl2 calls of "for i in range(nq): if i==4: ...":
\* the computed torques are not read.
PDLoopCommands(nq, torques) ==
  LET hits == SelectSeq([k \in 1 .. nq |-> k - 1], LAMBDA jointIndex : jointIndex = 4)
  IN  [k \in 1 .. Len(hits) |-> SetTorque(2, 100000000)]

\* What getJointState can report for one joint of the arm.
PDLoopReadings == { <<9, -9>>, <<10000000, 5>> }

\* One iteration of "for step in range(25)".
PDLoopStep ==
  /\ ppc = "pd_loop"
  /\ step < PDLoopSteps
  /\ \E joint_states \in [1 .. EdoJoints -> PDLoopReadings] :
       LET qm == Positions(joint_states)
           vm == Velocities(joint_states)
           torques == pd_control(q_desired, v_desired, qm, vm, Kp, Kd)
       IN  /\ q_measured' = qm
           /\ v_measured' = vm
           /\ tau' = torques
           /\ simCalls' = PDLoopCommands(EdoJoints, torques) \o <<StepSimulation>>
  /\ simSteps' = simSteps + 1
  /\ step' = step + 1
  /\ UNCHANGED <<ppc, q_desired, v_desired, Kp, Kd, cartVars, armVars, callVars,
                 urdfVars>>

PDLoopEnd ==
  /\ ppc = "pd_loop"
  /\ step = PDLoopSteps
  /\ ppc' = "pd_done"
  /\ UNCHANGED <<step, q_desired, v_desired, Kp, Kd, q_measured, v_measured,
                 tau, simCalls, simSteps, cartVars, armVars, callVars, urdfVars>>

\* The cell has set its targets and gains and is about to enter the loop.
InitPDLoop ==
  /\ CartIdle
  /\ ArmFresh
  /\ CallsIdle
  /\ UrdfIdle
  /\ ppc = "pd_loop"
  /\ step = 0
  /\ q_desired = <<0, 0, 0, 10000000, 0, 0>>
  /\ v_desired = zeros_like(q_desired)
  /\ Kp = <<0, 0, 0, 100, 0, 0>>
  /\ Kd = <<0, 0, 0, 0, 0, 0>>
  /\ q_measured = <<>>
  /\ v_measured = <<>>
  /\ tau = <<>>
  /\ simCalls = <<>>
  /\ simSteps = 0

NextPDLoop ==
  \/ PDLoopStep
  \/ PDLoopEnd

SpecPDLoop == InitPDLoop /\ [][NextPDLoop]_vars

\* The torque commands among the simulator calls of the latest iteration.
CommandsOf(calls) == SelectSeq(calls, LAMBDA c : c.call = "setJointMotorControl2")

\* C12: in every step of the 25-step loop, each joint is commanded the
\* torque pd_control computed for it from that step's measurement.
C12_CommandsArePdTorques ==
  (ppc \in {"pd_loop", "pd_done"} /\ step > 0) =>
    /\ tau = [j \in 1 .. EdoJoints |->
                Kp[j] * (q_desired[j] - q_measured[j])
                + Kd[j] * (v_desired[j] - v_measured[j])]
    /\ Len(CommandsOf(simCalls)) = EdoJoints
    /\ \A j \in 1 .. EdoJoints :
         \E k \in 1 .. Len(simCalls) :
           /\ simCalls[k].call = "setJointMotorControl2"
           /\ simCalls[k].jointIndex = j - 1
           /\ simCalls[k].force = tau[j]

-----------------------------------------------------------------------------
(* The action rule of the rollout *)

\* -K.s for the observation logged at position p, in 10^-6
MinusKDot(p) ==
  -(K[1] * envLog[p].obs[1] + K[2] * envLog[p].obs[2]
    + K[3] * envLog[p].obs[3] + K[4] * envLog[p].obs[4])

\* C15: every action the rollout sends is 0 when -K.s < 0.5 and 1
\* otherwise, s being the observation the environment returned last (by
\* reset for the first step, by the previous step afterwards); no other
\* action is sent.
C15_ThresholdPolicy ==
  InRollout =>
    /\ envLog[1].op = "reset"
    /\ \A p \in 2 .. Len(envLog) :
         /\ IsStep(p)
         /\ envLog[p].a \in {0, 1}
         /\ envLog[p].a = 0 <=> MinusKDot(p - 1) < 500000
         /\ envLog[p].a = 1 <=> MinusKDot(p - 1) >= 500000

\* A rollout in which both actions were sent.
C15_Witness ==
  /\ RolloutOver
  /\ \E p, q \in 2 .. Len(envLog) : envLog[p].a = 0 /\ envLog[q].a = 1

-----------------------------------------------------------------------------
(* Adding the pendulum to the robot description: addpendulum_urdf of the   *)
(* second notebook and the URDF cell of notebook-theo.ipynb. A file is a   *)
(* sequence of lines.                                                      *)

MaxUrdfLines == 3

\* Lines a robot description is made of: elements, the closing tag flush
\* left or indented, an empty line, a line of spaces.
UrdfLineKinds ==
  { "<robot name=edo>", "<link name=link_6/>", "</robot>", "  </robot>", "", "  " }

UrdfFiles == UNION { [1 .. n -> UrdfLineKinds] : n \in 0 .. MaxUrdfLines }

\* str.strip() on the lines above and on those the notebooks write
strip(line) ==
  CASE line = "  " -> ""
    [] line = "  </robot>" -> "</robot>"
    [] OTHER -> line

pop(lines) == SubSeq(lines, 1, Len(lines) - 1)

\* while urdf_data and urdf_data[-1].strip() == "": urdf_data.pop()
RECURSIVE PopBlankLines(_)
PopBlankLines(lines) ==
  IF lines # <<>> /\ strip(lines[Len(lines)]) = ""
    THEN PopBlankLines(pop(lines))
    ELSE lines

\* The lines of pendulum_urdf (comments and element bodies left out); its
\* last line, two spaces, is left open and continued by the next write.
pendulum_urdf ==
  << "", "<link name=pendulum_link>", "<link name=pendulum_mass>",
     "<joint name=pendulum_joint>", "<joint name=pendulum_mass_joint>" >>

\* file.writelines(urdf_data) after the two appends: "</robot>\n" lands on
\* the open last line of pendulum_urdf.
WithPendulum(urdf_data) == urdf_data \o pendulum_urdf \o << "  </robot>" >>

\* addpendulum_urdf(urdf_file_path, save_to_path)
AddPendulumUrdf ==
  /\ upc = "start"
  /\ IF ~urdfExists
       THEN /\ upc' = "FileNotFoundError"
            /\ UNCHANGED urdfOut
       ELSE LET trimmed == PopBlankLines(urdfIn)
            IN  IF trimmed = <<>>
                  THEN /\ upc' = "IndexError"
                       /\ UNCHANGED urdfOut
                  ELSE LET urdf_data ==
                             IF strip(trimmed[Len(trimmed)]) = "</robot>"
                               THEN pop(trimmed) ELSE trimmed
                       IN  /\ urdfOut' = WithPendulum(urdf_data)
                           /\ upc' = "addpendulum_done"
  /\ UNCHANGED <<urdfIn, urdfExists, cartVars, armVars, callVars, pdVars>>

\* The lines of the two strings the cell of notebook-theo.ipynb appends:
\* each starts with a line break and ends with a line of spaces.
pendulum_link == << "", "<link name=pendulum_link>", "  " >>

pendulum_joint == << "<joint name=pendulum_joint>", "  " >>

\* The URDF cell of notebook-theo.ipynb: urdf_content += pendulum_link;
\* urdf_content += pendulum_joint; written back to the same file.
UrdfCell ==
  /\ upc = "start"
  /\ IF urdfExists
       THEN /\ urdfOut' = urdfIn \o pendulum_link \o pendulum_joint
            /\ upc' = "cell_done"
       ELSE /\ upc' = "cell_not_found"
            /\ UNCHANGED urdfOut
  /\ UNCHANGED <<urdfIn, urdfExists, cartVars, armVars, callVars, pdVars>>

\* Some robot description, or none, is on disk and one of the notebooks
\* is about to add the pendulum.
InitUrdf ==
  /\ CartIdle
  /\ ArmFresh
  /\ CallsIdle
  /\ PdIdle
  /\ upc = "start"
  /\ urdfExists \in BOOLEAN
  /\ urdfIn \in (IF urdfExists THEN UrdfFiles ELSE {<<>>})
  /\ urdfOut = None

NextUrdf ==
  \/ AddPendulumUrdf
  \/ UrdfCell

SpecUrdf == InitUrdf /\ [][NextUrdf]_vars

Written == upc \in {"addpendulum_done", "cell_done"}

IsClosingTag(line) == strip(line) = "</robot>"

TagCount(lines) == Cardinality({p \in 1 .. Len(lines) : IsClosingTag(lines[p])})

NonBlank(lines) == {p \in 1 .. Len(lines) : strip(lines[p]) # ""}

\* the last non-blank line is the closing tag
EndsWithClosingTag(lines) ==
  /\ NonBlank(lines) # {}
  /\ \E p \in NonBlank(lines) :
       /\ \A q \in NonBlank(lines) : q <= p
       /\ IsClosingTag(lines[p])

\* the pendulum link and the pendulum joint are defined before line p
PendulumBefore(lines, p) ==
  /\ \E q \in 1 .. p - 1 : lines[q] = "<link name=pendulum_link>"
  /\ \E q \in 1 .. p - 1 : lines[q] = "<joint name=pendulum_joint>"

\* C14: the robot description written by the step that adds the pendulum
\* ends (blank lines aside) with the closing </robot> tag, holds that tag
\* once when the description read held it once, as its last non-blank
\* line, and defines the pendulum link and joint before it.
C14_SingleRobotDocument ==
  Written =>
    /\ EndsWithClosingTag(urdfOut)
    /\ (EndsWithClosingTag(urdfIn) /\ TagCount(urdfIn) = 1) => TagCount(urdfOut) = 1
    /\ \E p \in 1 .. Len(urdfOut) :
         /\ IsClosingTag(urdfOut[p])
         /\ \A q \in NonBlank(urdfOut) : q <= p
         /\ PendulumBefore(urdfOut, p)

====
